---- MODULE Spec2Model ----
(***************************************************************************)
(* Model of src/theme.rs: colors, palette, color styles, border styles,    *)
(* the theme and its loader.                                               *)
(*                                                                         *)
(* A Rust `&str` is modelled as a sequence of characters, each character a *)
(* one-character string; the byte length and byte slicing of the UTF-8     *)
(* encoding are computed from the characters' code points, because         *)
(* str::len and &s[a..b] count bytes, not characters.                      *)
(***************************************************************************)
EXTENDS Integers, Sequences, FiniteSets, TLC

VARIABLES
    overflow_checks, \* build setting: does integer overflow panic (debug) or wrap (release)
    n,               \* argument of Color::from_256colors
    color256,        \* its result
    text,            \* argument of Color::parse
    parsed,          \* its result
    style,           \* receiver of ColorStyle::resolve
    pair,            \* its result
    target,          \* the color load_color fills
    value,           \* the Option<&toml::Value> load_color reads
    loaded,          \* its outcome
    content,         \* argument of load_theme, as toml::de::from_str reads it
    result,          \* its outcome
    theme,           \* the Theme
    prevTheme,       \* the Theme before the last Theme::load
    table,           \* the table of the last Theme::load
    status,          \* "ok", or "panicked" once a call has panicked
    repeat,          \* the last two Theme::load calls were given the same table
    called           \* the operation under study has been called

vars == <<overflow_checks, n, color256, text, parsed, style, pair, target, value,
          loaded, content, result, theme, prevTheme, table, status, repeat, called>>

\* Value of a variable that the specification at hand does not use.
Unused == <<"Unused">>

\* Option::None, and the outcome of a call that panicked.
None == <<"None">>
Panic == <<"Panic">>

(***************************************************************************)
(* Characters and UTF-8                                                    *)
(***************************************************************************)
Digits == <<"0", "1", "2", "3", "4", "5", "6", "7", "8", "9">>
Lower == <<"a", "b", "c", "d", "e", "f", "g", "h", "i", "j", "k", "l", "m",
           "n", "o", "p", "q", "r", "s", "t", "u", "v", "w", "x", "y", "z">>
Upper == <<"A", "B", "C", "D", "E", "F", "G", "H", "I", "J", "K", "L", "M",
           "N", "O", "P", "Q", "R", "S", "T", "U", "V", "W", "X", "Y", "Z">>

IndexOf(seq, c) == CHOOSE i \in 1..Len(seq) : seq[i] = c
InSeq(seq, c) == \E i \in 1..Len(seq) : seq[i] = c

\* Unicode scalar value of a character.  "e'" is U+00E9 (2 bytes in UTF-8),
\* "EUR" is U+20AC (3 bytes), "U+8000" is U+8000 (3 bytes).
CodePoint(c) ==
    CASE InSeq(Digits, c) -> 47 + IndexOf(Digits, c)
      [] InSeq(Lower, c) -> 96 + IndexOf(Lower, c)
      [] InSeq(Upper, c) -> 64 + IndexOf(Upper, c)
      [] c = " " -> 32
      [] c = "#" -> 35
      [] c = "/" -> 47
      [] c = "e'" -> 233
      [] c = "EUR" -> 8364
      [] c = "U+8000" -> 32768

\* Number of bytes of the UTF-8 encoding of a character.
Utf8Len(c) ==
    LET cp == CodePoint(c)
    IN  IF cp < 128 THEN 1 ELSE IF cp < 2048 THEN 2 ELSE IF cp < 65536 THEN 3 ELSE 4

RECURSIVE ByteLen(_)
\* str::len: the length in bytes.
ByteLen(s) == IF s = <<>> THEN 0 ELSE Utf8Len(Head(s)) + ByteLen(Tail(s))

\* Byte offset at which character i of s starts (i = Len(s)+1: the end).
Offset(s, i) == ByteLen(SubSeq(s, 1, i - 1))

\* str::is_char_boundary
IsCharBoundary(s, k) == \E i \in 1..(Len(s) + 1) : Offset(s, i) = k

\* &s[from..to] panics unless both ends are char boundaries within s.
SliceOk(s, from, to) ==
    from <= to /\ IsCharBoundary(s, from) /\ IsCharBoundary(s, to)

\* &s[from..to], where SliceOk(s, from, to).
Slice(s, from, to) ==
    LET first == CHOOSE i \in 1..(Len(s) + 1) : Offset(s, i) = from
        last == CHOOSE i \in 1..(Len(s) + 1) : Offset(s, i) = to
    IN  SubSeq(s, first, last - 1)

\* `c as i16`: the scalar value truncated to 16 bits, read as signed.
AsI16(x) ==
    LET m == x % 65536 IN IF m >= 32768 THEN m - 65536 ELSE m

\* `x as u8`
AsU8(x) == x % 256

(***************************************************************************)
(* BaseColor and Color                                                     *)
(***************************************************************************)
\* enum BaseColor, in declaration order (Color #0 .. Color #7).
BaseColors == <<"Black", "Red", "Green", "Yellow", "Blue", "Magenta", "Cyan", "White">>

\* enum Color: <<"Default">>, <<"Dark", base>>, <<"Light", base>>,
\* <<"Rgb", r, g, b>>, <<"RgbLowRes", r, g, b>>.
Default == <<"Default">>
Dark(base) == <<"Dark", base>>
Light(base) == <<"Light", base>>
Rgb(r, g, b) == <<"Rgb", r, g, b>>
RgbLowRes(r, g, b) == <<"RgbLowRes", r, g, b>>

\* impl From<u8> for BaseColor
BaseColorFrom(k) ==
    CASE k % 8 = 0 -> "Black"
      [] k % 8 = 1 -> "Red"
      [] k % 8 = 2 -> "Green"
      [] k % 8 = 3 -> "Yellow"
      [] k % 8 = 4 -> "Blue"
      [] k % 8 = 5 -> "Magenta"
      [] k % 8 = 6 -> "Cyan"
      [] k % 8 = 7 -> "White"

\* Color::from_256colors with the first range test off by one (k <= 8).
from_256colorsOffByOne(k) ==
    IF k <= 8 THEN Dark(BaseColorFrom(k))
    ELSE IF k < 16 THEN Light(BaseColorFrom(k))
    ELSE LET m == k - 16
             r == m \div 36
             g == (m % 36) \div 6
             b == m % 6
         IN  RgbLowRes(r, g, b)

\* Color::from_256colors(k), k a u8.
from_256colors(k) ==
    IF k < 8 THEN Dark(BaseColorFrom(k))
    ELSE IF k < 16 THEN Light(BaseColorFrom(k))
    ELSE LET m == k - 16
             r == m \div 36
             g == (m % 36) \div 6
             b == m % 6
         IN  RgbLowRes(r, g, b)

(***************************************************************************)
(* Color::parse                                                            *)
(***************************************************************************)
\* One arm of load_hex's match: the value a character adds to the sum.
HexDigit(c) ==
    LET cp == CodePoint(c)
    IN  IF cp >= 48 /\ cp <= 57 THEN AsI16(cp) - 48
        ELSE IF cp >= 97 /\ cp <= 102 THEN AsI16(cp) - 97 + 10
        ELSE IF cp >= 65 /\ cp <= 70 THEN AsI16(cp) - 65 + 10
        ELSE 0

RECURSIVE load_hex_from(_, _)
\* The loop of load_hex, entered with the running sum.
load_hex_from(sum, s) ==
    IF s = <<>> THEN sum
    ELSE load_hex_from(AsI16(sum * 16 + HexDigit(Head(s))), Tail(s))

\* load_hex(s): `sum as u16`
load_hex(s) == load_hex_from(0, s) % 65536

\* The low-resolution branch compares with 6 inclusively.
LowResInRangeInclusive(i) == i >= 0 /\ i <= 6

\* The closure of parse_special's low-resolution branch: |&i| i >= 0 && i < 6
LowResInRange(i) == i >= 0 /\ i < 6

\* Color::parse_special(str): Some(color) is the color, None is None, and
\* Panic is a panic of the thread.
parse_special(str) ==
    IF str # <<>> /\ Head(str) = "#" THEN
        LET v == Tail(str)
            len == ByteLen(v)
        IN  IF len # 6 /\ len # 3 THEN Panic
            ELSE LET l == IF len = 6 THEN 2 ELSE 1
                     multiplier == IF len = 6 THEN 1 ELSE 17
                 IN  IF ~ (SliceOk(v, 0, l) /\ SliceOk(v, l, 2 * l)
                           /\ SliceOk(v, 2 * l, 3 * l))
                     THEN Panic
                     ELSE LET r == (load_hex(Slice(v, 0, l)) * multiplier) % 65536
                              g == (load_hex(Slice(v, l, 2 * l)) * multiplier) % 65536
                              b == (load_hex(Slice(v, 2 * l, 3 * l)) * multiplier) % 65536
                          IN  Rgb(AsU8(r), AsU8(g), AsU8(b))
    ELSE IF ByteLen(str) = 3 THEN
        LET diff == [i \in 1..Len(str) |-> AsI16(CodePoint(str[i])) - 48]
            overflows == \E i \in 1..Len(str) : diff[i] < -32768
            rgb == [i \in 1..Len(str) |-> AsI16(diff[i])]
        IN  IF overflows /\ overflow_checks THEN Panic
            ELSE IF \A i \in 1..Len(rgb) : LowResInRange(rgb[i])
                 THEN IF Len(rgb) < 3 THEN Panic
                      ELSE RgbLowRes(AsU8(rgb[1]), AsU8(rgb[2]), AsU8(rgb[3]))
                 ELSE None
    ELSE None

\* The string literals of Color::parse.
Str_black == <<"b", "l", "a", "c", "k">>
Str_red == <<"r", "e", "d">>
Str_green == <<"g", "r", "e", "e", "n">>
Str_yellow == <<"y", "e", "l", "l", "o", "w">>
Str_blue == <<"b", "l", "u", "e">>
Str_magenta == <<"m", "a", "g", "e", "n", "t", "a">>
Str_cyan == <<"c", "y", "a", "n">>
Str_white == <<"w", "h", "i", "t", "e">>
Str_light == <<"l", "i", "g", "h", "t", " ">>

\* Texts that are no color: one Color::parse answers None for, and a '#'
\* followed by four characters.
Str_notacolor == <<"n", "o", "t", "a", "c", "o", "l", "o", "r">>
Str_hex4 == <<"#", "1", "2", "3", "4">>

\* Color::parse(str)
parse(str) ==
    CASE str = Str_black -> Dark("Black")
      [] str = Str_red -> Dark("Red")
      [] str = Str_green -> Dark("Green")
      [] str = Str_yellow -> Dark("Yellow")
      [] str = Str_blue -> Dark("Blue")
      [] str = Str_magenta -> Dark("Magenta")
      [] str = Str_cyan -> Dark("Cyan")
      [] str = Str_white -> Dark("White")
      [] str = Str_light \o Str_black -> Light("Black")
      [] str = Str_light \o Str_red -> Light("Red")
      [] str = Str_light \o Str_green -> Light("Green")
      [] str = Str_light \o Str_yellow -> Light("Yellow")
      [] str = Str_light \o Str_blue -> Light("Blue")
      [] str = Str_light \o Str_magenta -> Light("Magenta")
      [] str = Str_light \o Str_cyan -> Light("Cyan")
      [] str = Str_light \o Str_white -> Light("White")
      [] OTHER -> parse_special(str)

(***************************************************************************)
(* toml::Value                                                             *)
(***************************************************************************)
\* enum toml::Value: <<"String", s>>, <<"Integer", k>>, <<"Boolean", b>>,
\* <<"Array", sequence of values>>, <<"Table", function from keys to values>>.
TString(s) == <<"String", s>>
TInteger(k) == <<"Integer", k>>
TBoolean(b) == <<"Boolean", b>>
TArray(a) == <<"Array", a>>
TTable(t) == <<"Table", t>>

\* Table::get(key): Some(value) is the value, None is None.
Get(t, key) == IF key \in DOMAIN t THEN t[key] ELSE None

\* `if let Some(&toml::Value::X(..)) = v`
IsA(v, tag) == v[1] = tag

(***************************************************************************)
(* BorderStyle, Palette, Theme                                             *)
(***************************************************************************)
Str_simple == <<"s", "i", "m", "p", "l", "e">>
Str_outset == <<"o", "u", "t", "s", "e", "t">>

\* BorderStyle::from falling back to Simple for an unknown string.
BorderStyleFromFallbackSimple(s) ==
    IF s = Str_simple THEN "Simple"
    ELSE IF s = Str_outset THEN "Outset"
    ELSE "Simple"

\* BorderStyle::from(s)
BorderStyleFrom(s) ==
    IF s = Str_simple THEN "Simple"
    ELSE IF s = Str_outset THEN "Outset"
    ELSE "None"

\* The fields of struct Palette, in the order Palette::load fills them.
PaletteFields == <<"background", "shadow", "view", "primary", "secondary",
                   "tertiary", "title_primary", "title_secondary",
                   "highlight", "highlight_inactive">>

PaletteFieldSet == {PaletteFields[i] : i \in 1..Len(PaletteFields)}

\* impl Default for Theme
ThemeDefault ==
    [shadow |-> TRUE,
     borders |-> "Simple",
     colors |-> [background |-> Dark("Blue"),
                 shadow |-> Dark("Black"),
                 view |-> Dark("White"),
                 primary |-> Dark("Black"),
                 secondary |-> Dark("Blue"),
                 tertiary |-> Light("White"),
                 title_primary |-> Dark("Red"),
                 title_secondary |-> Dark("Yellow"),
                 highlight |-> Dark("Red"),
                 highlight_inactive |-> Dark("Blue")]]

\* load_default()
load_default == ThemeDefault

RECURSIVE load_color(_, _)
RECURSIVE load_color_any(_, _, _)
\* load_color(target, value): the target afterwards, the value returned, and
\* whether the call panicked instead of returning.
load_color(tgt, val) ==
    IF val = None THEN [target |-> tgt, ret |-> FALSE, panicked |-> FALSE]
    ELSE IF IsA(val, "String") THEN
        LET color == parse(val[2])
        IN  IF color = Panic THEN [target |-> tgt, ret |-> FALSE, panicked |-> TRUE]
            ELSE IF color # None THEN [target |-> color, ret |-> TRUE, panicked |-> FALSE]
            ELSE [target |-> tgt, ret |-> FALSE, panicked |-> FALSE]
    ELSE IF IsA(val, "Array") THEN load_color_any(tgt, val[2], 1)
    ELSE [target |-> tgt, ret |-> FALSE, panicked |-> FALSE]

\* array.iter().any(|item| load_color(target, Some(item))), from item i on.
load_color_any(tgt, array, i) ==
    IF i > Len(array) THEN [target |-> tgt, ret |-> FALSE, panicked |-> FALSE]
    ELSE LET r == load_color(tgt, array[i])
         IN  IF r.panicked \/ r.ret THEN r
             ELSE load_color_any(r.target, array, i + 1)

RECURSIVE palette_load_from(_, _, _)
\* Palette::load(table) from its i-th load_color call on.
palette_load_from(colors, t, i) ==
    IF i > Len(PaletteFields) THEN [colors |-> colors, panicked |-> FALSE]
    ELSE LET f == PaletteFields[i]
             r == load_color(colors[f], Get(t, f))
         IN  IF r.panicked THEN [colors |-> colors, panicked |-> TRUE]
             ELSE palette_load_from([colors EXCEPT ![f] = r.target], t, i + 1)

\* Palette::load(table)
palette_load(colors, t) == palette_load_from(colors, t, 1)

\* Theme::load taking any "shadow" value, of whatever type, as a boolean.
theme_loadAnyShadow(th, t) ==
    LET shadow == Get(t, "shadow")
        borders == Get(t, "borders")
        colors == Get(t, "colors")
        th1 == IF shadow # None
               THEN [th EXCEPT !.shadow = (shadow = TBoolean(TRUE))] ELSE th
        th2 == IF IsA(borders, "String")
               THEN [th1 EXCEPT !.borders = BorderStyleFrom(borders[2])] ELSE th1
    IN  IF IsA(colors, "Table")
        THEN LET r == palette_load(th2.colors, colors[2])
             IN  [theme |-> [th2 EXCEPT !.colors = r.colors], panicked |-> r.panicked]
        ELSE [theme |-> th2, panicked |-> FALSE]

\* Theme::load(table): the theme afterwards, and whether the call panicked.
theme_load(th, t) ==
    LET shadow == Get(t, "shadow")
        borders == Get(t, "borders")
        colors == Get(t, "colors")
        th1 == IF IsA(shadow, "Boolean") THEN [th EXCEPT !.shadow = shadow[2]] ELSE th
        th2 == IF IsA(borders, "String")
               THEN [th1 EXCEPT !.borders = BorderStyleFrom(borders[2])] ELSE th1
    IN  IF IsA(colors, "Table")
        THEN LET r == palette_load(th2.colors, colors[2])
             IN  [theme |-> [th2 EXCEPT !.colors = r.colors], panicked |-> r.panicked]
        ELSE [theme |-> th2, panicked |-> FALSE]

\* What toml::de::from_str(content) returns: Ok(table), or Err(..) for a
\* text that is not valid TOML.
TomlOk(t) == <<"Ok", t>>
TomlErr == <<"Err">>

\* load_theme(content), c being what toml::de::from_str makes of content:
\* Ok(theme), Err(Error::Parse(..)) or a panic.
load_theme(c) ==
    IF c[1] = "Err" THEN <<"Err", "Parse">>
    ELSE LET r == theme_load(ThemeDefault, c[2])
         IN  IF r.panicked THEN Panic ELSE <<"Ok", r.theme>>

(***************************************************************************)
(* ColorStyle                                                              *)
(***************************************************************************)
\* enum ColorStyle: <<"Default">>, <<"Background">>, ..., <<"Custom", front, back>>.
ColorPair(front, back) == [front |-> front, back |-> back]

\* ColorPair::invert
invert(p) == ColorPair(p.back, p.front)

\* ColorStyle::resolve written with Highlight's pair the wrong way round.
resolveHighlightSwapped(st, th) ==
    LET c == th.colors
    IN  CASE st[1] = "Default" -> ColorPair(Default, Default)
          [] st[1] = "Background" -> ColorPair(c.view, c.background)
          [] st[1] = "Shadow" -> ColorPair(c.shadow, c.shadow)
          [] st[1] = "Primary" -> ColorPair(c.primary, c.view)
          [] st[1] = "Secondary" -> ColorPair(c.secondary, c.view)
          [] st[1] = "Tertiary" -> ColorPair(c.tertiary, c.view)
          [] st[1] = "TitlePrimary" -> ColorPair(c.title_primary, c.view)
          [] st[1] = "TitleSecondary" -> ColorPair(c.title_secondary, c.view)
          [] st[1] = "Highlight" -> ColorPair(c.highlight, c.view)
          [] st[1] = "HighlightInactive" -> ColorPair(c.view, c.highlight_inactive)
          [] st[1] = "Custom" -> ColorPair(st[2], st[3])

\* ColorStyle::resolve(&self, theme)
resolve(st, th) ==
    LET c == th.colors
    IN  CASE st[1] = "Default" -> ColorPair(Default, Default)
          [] st[1] = "Background" -> ColorPair(c.view, c.background)
          [] st[1] = "Shadow" -> ColorPair(c.shadow, c.shadow)
          [] st[1] = "Primary" -> ColorPair(c.primary, c.view)
          [] st[1] = "Secondary" -> ColorPair(c.secondary, c.view)
          [] st[1] = "Tertiary" -> ColorPair(c.tertiary, c.view)
          [] st[1] = "TitlePrimary" -> ColorPair(c.title_primary, c.view)
          [] st[1] = "TitleSecondary" -> ColorPair(c.title_secondary, c.view)
          [] st[1] = "Highlight" -> ColorPair(c.view, c.highlight)
          [] st[1] = "HighlightInactive" -> ColorPair(c.view, c.highlight_inactive)
          [] st[1] = "Custom" -> ColorPair(st[2], st[3])

(***************************************************************************)
(* Variables a specification does not use keep the value Unused.           *)
(***************************************************************************)
vars256 == <<n, color256>>
varsParse == <<text, parsed>>
varsResolve == <<style, pair>>
varsLoadColor == <<target, value, loaded>>
varsLoadTheme == <<content, result>>
varsTheme == <<theme, prevTheme, table, status, repeat>>

Idle256 == n = Unused /\ color256 = Unused
IdleParse == text = Unused /\ parsed = Unused
IdleResolve == style = Unused /\ pair = Unused
IdleLoadColor == target = Unused /\ value = Unused /\ loaded = Unused
IdleLoadTheme == content = Unused /\ result = Unused
IdleTheme ==
    /\ theme = Unused /\ prevTheme = Unused /\ table = Unused
    /\ status = Unused /\ repeat = Unused

\* All sequences over S of length at most k.
SeqsUpTo(S, k) == UNION {[1..m -> S] : m \in 0..k}

(***************************************************************************)
(* Spec256: Color::from_256colors applied to every u8.                     *)
(***************************************************************************)
U8Max == 255

Init256 ==
    /\ overflow_checks \in BOOLEAN
    /\ called = FALSE
    /\ n \in 0..U8Max
    /\ color256 = Unused
    /\ IdleParse /\ IdleResolve /\ IdleLoadColor /\ IdleLoadTheme /\ IdleTheme

Call256 ==
    /\ ~ called
    /\ called' = TRUE
    /\ color256' = from_256colors(n)
    /\ UNCHANGED <<overflow_checks, n, varsParse, varsResolve, varsLoadColor,
                   varsLoadTheme, varsTheme>>

Next256 == Call256

Spec256 == Init256 /\ [][Next256]_vars

(***************************************************************************)
(* SpecParse: Color::parse applied to a bounded set of texts.              *)
(***************************************************************************)
\* Longest text after the '#', and longest text of the low-resolution kind.
MaxHexLen == 6
MaxLowResLen == 3

\* Hex digits of both cases, a letter that is no hex digit, a 2-byte character.
HexAlphabet == {"0", "5", "a", "F", "g", "e'"}

\* Digits inside and outside 0..5, the character before '0', a 2-byte
\* character and a 3-byte character whose scalar value is 2^15.
LowResAlphabet == {"0", "5", "6", "/", "e'", "U+8000"}

BaseNames == {Str_black, Str_red, Str_green, Str_yellow, Str_blue, Str_magenta,
              Str_cyan, Str_white}

\* The texts tried: the names, near misses, the examples of the
\* documentation, '#' texts up to maxHex long, short texts up to maxLowRes long.
ParseTexts(maxHex, maxLowRes) ==
    BaseNames
    \cup {Str_light \o b : b \in BaseNames}
    \cup {<<"R", "e", "d">>, <<"l", "i", "g", "h", "t">>, Str_notacolor}
    \cup {<<"4", "2", "0">>, <<"9", "9", "9">>, <<"#", "F", "F", "5", "5", "5", "5">>,
          <<"#", "d", "3", "d", "7", "c", "f">>, Str_hex4}
    \cup {<<"#">> \o h : h \in SeqsUpTo(HexAlphabet, maxHex)}
    \cup SeqsUpTo(LowResAlphabet, maxLowRes)

InitParse ==
    /\ overflow_checks \in BOOLEAN
    /\ called = FALSE
    /\ text \in ParseTexts(MaxHexLen, MaxLowResLen)
    /\ parsed = Unused
    /\ Idle256 /\ IdleResolve /\ IdleLoadColor /\ IdleLoadTheme /\ IdleTheme

CallParse ==
    /\ ~ called
    /\ called' = TRUE
    /\ parsed' = parse(text)
    /\ UNCHANGED <<overflow_checks, text, vars256, varsResolve, varsLoadColor,
                   varsLoadTheme, varsTheme>>

NextParse == CallParse

SpecParse == InitParse /\ [][NextParse]_vars

(***************************************************************************)
(* SpecResolve: ColorStyle::resolve applied to every style and to a        *)
(* bounded set of themes.                                                  *)
(***************************************************************************)
\* A color no default palette field holds.
OtherColor == Rgb(1, 2, 3)

\* Themes whose palette fields each hold their default or OtherColor.
ResolveThemes ==
    {[ThemeDefault EXCEPT !.colors = [f \in PaletteFieldSet |->
          IF f \in S THEN OtherColor ELSE ThemeDefault.colors[f]]] :
     S \in SUBSET PaletteFieldSet}

CustomColors == {Default, RgbLowRes(5, 0, 0)}

ColorStyles ==
    {<<"Default">>, <<"Background">>, <<"Shadow">>, <<"Primary">>, <<"Secondary">>,
     <<"Tertiary">>, <<"TitlePrimary">>, <<"TitleSecondary">>, <<"Highlight">>,
     <<"HighlightInactive">>}
    \cup {<<"Custom", f, b>> : f \in CustomColors, b \in CustomColors}

InitResolve ==
    /\ overflow_checks \in BOOLEAN
    /\ called = FALSE
    /\ theme \in ResolveThemes
    /\ style \in ColorStyles
    /\ pair = Unused
    /\ prevTheme = Unused /\ table = Unused /\ status = Unused /\ repeat = Unused
    /\ Idle256 /\ IdleParse /\ IdleLoadColor /\ IdleLoadTheme

CallResolve ==
    /\ ~ called
    /\ called' = TRUE
    /\ pair' = resolve(style, theme)
    /\ UNCHANGED <<overflow_checks, style, vars256, varsParse, varsLoadColor,
                   varsLoadTheme, varsTheme>>

NextResolve == CallResolve

SpecResolve == InitResolve /\ [][NextResolve]_vars

(***************************************************************************)
(* SpecLoadColor: load_color applied to a bounded set of values.           *)
(***************************************************************************)
\* Longest array, and deepest nesting of arrays, of the values tried.
MaxArrayLen == 2
MaxDepth == 2

Str_420 == <<"4", "2", "0">>
Str_466 == <<"4", "6", "6">>

\* Two colors, two texts that are no color, one '#' text of a wrong length.
StringAtoms == {TString(Str_red), TString(Str_420), TString(Str_466),
                TString(Str_hex4)}

RECURSIVE ValuesOver(_, _)
\* The atoms, and the arrays nested at most d deep over them.
ValuesOver(atoms, d) ==
    IF d = 0 THEN atoms
    ELSE atoms \cup {TArray(a) : a \in SeqsUpTo(ValuesOver(atoms, d - 1), MaxArrayLen)}

\* An absent value, and the values nested at most d deep.
LoadColorValues(d) == {None} \cup ValuesOver(StringAtoms \cup {TInteger(1)}, d)

InitLoadColor ==
    /\ overflow_checks \in BOOLEAN
    /\ called = FALSE
    /\ target \in {ThemeDefault.colors.view, OtherColor}
    /\ value \in LoadColorValues(MaxDepth)
    /\ loaded = Unused
    /\ Idle256 /\ IdleParse /\ IdleResolve /\ IdleLoadTheme /\ IdleTheme

CallLoadColor ==
    /\ ~ called
    /\ called' = TRUE
    /\ loaded' = load_color(target, value)
    /\ UNCHANGED <<overflow_checks, target, value, vars256, varsParse, varsResolve,
                   varsLoadTheme, varsTheme>>

NextLoadColor == CallLoadColor

SpecLoadColor == InitLoadColor /\ [][NextLoadColor]_vars

(***************************************************************************)
(* Configuration tables                                                    *)
(***************************************************************************)
Str_bogus == <<"b", "o", "g", "u", "s">>

\* The table with the given values under "shadow", "borders" and "colors";
\* None stands for an absent key.
MkTable(s, b, c) ==
    LET v == [shadow |-> s, borders |-> b, colors |-> c]
    IN  [k \in {k \in {"shadow", "borders", "colors"} : v[k] # None} |-> v[k]]

\* The tables that give at most maxKeys of the keys a value of vals.
ColorTables(keys, vals, maxKeys) ==
    UNION {[S -> vals] : S \in {S \in SUBSET keys : Cardinality(S) <= maxKeys}}

\* "shadow": absent, a boolean, or a string (a wrong type).
ShadowValues == {None, TBoolean(FALSE), TBoolean(TRUE), TString(Str_red)}

\* "borders": absent, a known or unknown style, or a boolean (a wrong type).
BordersValues == {None, TString(Str_simple), TString(Str_outset), TString(Str_bogus),
                  TBoolean(TRUE)}

(***************************************************************************)
(* SpecLoadTheme: load_theme applied to a bounded set of configurations.   *)
(***************************************************************************)
\* Most palette keys one configuration sets.
MaxColorKeys == 2

\* First, middle and last field of Palette::load.
ContentKeys == {"background", "view", "highlight_inactive"}

\* "colors": absent, a string (a wrong type), or a table that sets at most
\* maxKeys of ContentKeys.
ContentColors(maxKeys) ==
    {None, TString(Str_red)}
    \cup {TTable(ct) : ct \in ColorTables(ContentKeys,
                          ValuesOver(StringAtoms \cup {TInteger(1)}, 1), maxKeys)}

\* What toml::de::from_str may return.
Contents(maxKeys) ==
    {TomlErr}
    \cup {TomlOk(MkTable(s, b, c)) : s \in {None, TBoolean(FALSE), TString(Str_red)},
                                     b \in {None, TString(Str_outset), TString(Str_bogus)},
                                     c \in ContentColors(maxKeys)}

InitLoadTheme ==
    /\ overflow_checks \in BOOLEAN
    /\ called = FALSE
    /\ content \in Contents(MaxColorKeys)
    /\ result = Unused
    /\ Idle256 /\ IdleParse /\ IdleResolve /\ IdleLoadColor /\ IdleTheme

CallLoadTheme ==
    /\ ~ called
    /\ called' = TRUE
    /\ result' = load_theme(content)
    /\ UNCHANGED <<overflow_checks, content, vars256, varsParse, varsResolve,
                   varsLoadColor, varsTheme>>

NextLoadTheme == CallLoadTheme

SpecLoadTheme == InitLoadTheme /\ [][NextLoadTheme]_vars

(***************************************************************************)
(* Spec: a Theme, starting as load_default(), under successive Theme::load *)
(* calls.                                                                  *)
(***************************************************************************)
\* The palette key the layered tables set.
LayerKey == "view"

\* A color, a text that is no color, and a '#' text of a wrong length.
LayerArrayAtoms == {TString(Str_420), TString(Str_466), TString(Str_hex4)}

LayerValues ==
    StringAtoms \cup {TInteger(1)}
    \cup {TArray(a) : a \in SeqsUpTo(LayerArrayAtoms, MaxArrayLen)}

\* Tables without a palette, a table whose "colors" is no table, and tables
\* with a palette that sets LayerKey.
LayerTables ==
    {MkTable(s, b, None) : s \in ShadowValues, b \in BordersValues}
    \cup {MkTable(None, None, TString(Str_red))}
    \cup {MkTable(sb[1], sb[2], TTable(ct)) :
            sb \in {<<None, None>>, <<TBoolean(FALSE), None>>,
                    <<None, TString(Str_bogus)>>},
            ct \in ColorTables({LayerKey}, LayerValues, 1)}

Init ==
    /\ overflow_checks \in BOOLEAN
    /\ called = FALSE
    /\ theme = load_default
    /\ prevTheme = load_default
    /\ table = MkTable(None, None, None)
    /\ status = "ok"
    /\ repeat = FALSE
    /\ Idle256 /\ IdleParse /\ IdleResolve /\ IdleLoadColor /\ IdleLoadTheme

\* theme.load(t); a panic ends the run.
ThemeLoad(t) ==
    /\ status = "ok"
    /\ LET r == theme_load(theme, t)
       IN  /\ theme' = r.theme
           /\ status' = IF r.panicked THEN "panicked" ELSE "ok"
    /\ prevTheme' = theme
    /\ table' = t
    /\ repeat' = (called /\ table = t)
    /\ called' = TRUE
    /\ UNCHANGED <<overflow_checks, vars256, varsParse, varsResolve, varsLoadColor,
                   varsLoadTheme>>

Next == \E t \in LayerTables : ThemeLoad(t)

Spec == Init /\ [][Next]_vars

(***************************************************************************)
(* Claims about Color::from_256colors                                      *)
(***************************************************************************)
\* C1: for every index n in 16..=255, from_256colors(n) is RgbLowRes(r,g,b)
\* with each channel in [0,5] and 16 + 36*r + 6*g + b = n.
C1_LowResCube ==
    (called /\ n >= 16) =>
        /\ color256[1] = "RgbLowRes"
        /\ \A i \in 2..4 : color256[i] \in 0..5
        /\ 16 + 36 * color256[2] + 6 * color256[3] + color256[4] = n

\* C8: for n in 0..=7 from_256colors(n) is Dark(BaseColor::from(n)), for n
\* in 8..=15 it is Light(BaseColor::from(n-8)), BaseColor::from numbering
\* Black..White as 0..7.
C8_BaseColors ==
    (called /\ n < 16) =>
        /\ n <= 7 => /\ color256 = Dark(BaseColorFrom(n))
                     /\ color256 = Dark(BaseColors[n + 1])
        /\ n >= 8 => /\ color256 = Light(BaseColorFrom(n - 8))
                     /\ color256 = Light(BaseColors[n - 8 + 1])

\* from_256colors has answered for a light color, 12.
C8_Witness == called /\ n = 12 /\ color256 = Light("Blue")

(***************************************************************************)
(* Claims about Color::parse                                               *)
(***************************************************************************)
\* The value the specification gives a character as a hex digit: 0-9, a-f
\* and A-F count 0..15, any other character counts 0.
SpecHexDigits == <<"0", "1", "2", "3", "4", "5", "6", "7", "8", "9",
                   "a", "b", "c", "d", "e", "f">>
SpecUpperHexDigits == <<"A", "B", "C", "D", "E", "F">>

SpecHexValue(c) ==
    IF InSeq(SpecHexDigits, c) THEN IndexOf(SpecHexDigits, c) - 1
    ELSE IF InSeq(SpecUpperHexDigits, c) THEN IndexOf(SpecUpperHexDigits, c) + 9
    ELSE 0

\* C6: a text that is '#' followed by exactly 3 or exactly 6 characters
\* parses, without failing, to Rgb: two hex digits per channel for 6
\* characters, one hex digit times 17 per channel for 3 characters.
C6_HexParses ==
    (called /\ text # <<>> /\ Head(text) = "#"
                    /\ Len(text) - 1 \in {3, 6}) =>
        LET h == Tail(text)
        IN  IF Len(h) = 6
            THEN parsed = Rgb(16 * SpecHexValue(h[1]) + SpecHexValue(h[2]),
                              16 * SpecHexValue(h[3]) + SpecHexValue(h[4]),
                              16 * SpecHexValue(h[5]) + SpecHexValue(h[6]))
            ELSE parsed = Rgb(17 * SpecHexValue(h[1]), 17 * SpecHexValue(h[2]),
                              17 * SpecHexValue(h[3]))

(***************************************************************************)
(* What a configuration value supplies, said without load_color            *)
(***************************************************************************)
RECURSIVE Leaves(_)
RECURSIVE LeavesOfSeq(_)
\* The values that are no arrays inside v, left to right.
Leaves(v) == IF v[1] = "Array" THEN LeavesOfSeq(v[2]) ELSE <<v>>

LeavesOfSeq(a) == IF a = <<>> THEN <<>> ELSE Leaves(Head(a)) \o LeavesOfSeq(Tail(a))

\* v is a string that Color::parse turns into a color.
IsColorLeaf(v) == v[1] = "String" /\ parse(v[2]) # None /\ parse(v[2]) # Panic

\* v is a string that Color::parse panics on.
IsPanicLeaf(v) == v[1] = "String" /\ parse(v[2]) = Panic

\* The first valid color of an Option<value>, None when there is none.
FirstValid(v) ==
    IF v = None THEN None
    ELSE LET ls == Leaves(v)
             valid == {i \in 1..Len(ls) : IsColorLeaf(ls[i])}
         IN  IF valid = {} THEN None
             ELSE parse(ls[CHOOSE i \in valid : \A j \in valid : i <= j][2])

\* Color::parse panics on a string of v that no valid color precedes.
AbortsOn(v) ==
    /\ v # None
    /\ LET ls == Leaves(v)
       IN  \E i \in 1..Len(ls) :
               IsPanicLeaf(ls[i]) /\ \A j \in 1..(i - 1) : ~ IsColorLeaf(ls[j])

\* The "colors" table of a configuration table, empty when there is none.
ColorsOf(t) ==
    IF IsA(Get(t, "colors"), "Table") THEN Get(t, "colors")[2]
    ELSE [k \in {} |-> None]

\* The border-style strings the documentation names.
KnownBorders == {Str_simple, Str_outset, <<"n", "o", "n", "e">>}

(***************************************************************************)
(* What holds of the calls that return                                     *)
(***************************************************************************)
\* Every character of s is ASCII.
IsAscii(s) == \A i \in 1..Len(s) : CodePoint(s[i]) < 128

\* Under SpecParse: an ASCII text that is '#' and 3 or 6 characters parses
\* to the Rgb color of its hex digits.
HexParsesAscii ==
    (called /\ text # <<>> /\ Head(text) = "#" /\ Len(text) - 1 \in {3, 6}
            /\ IsAscii(text)) =>
        LET h == Tail(text)
        IN  IF Len(h) = 6
            THEN parsed = Rgb(16 * SpecHexValue(h[1]) + SpecHexValue(h[2]),
                              16 * SpecHexValue(h[3]) + SpecHexValue(h[4]),
                              16 * SpecHexValue(h[5]) + SpecHexValue(h[6]))
            ELSE parsed = Rgb(17 * SpecHexValue(h[1]), 17 * SpecHexValue(h[2]),
                              17 * SpecHexValue(h[3]))

\* Under SpecLoadColor: load_color panics exactly when a string Color::parse
\* panics on comes before any valid color, and when it returns it has
\* stored the first valid color, or nothing.
LoadColorReturnsFirstValid ==
    called =>
        /\ loaded.panicked <=> AbortsOn(value)
        /\ ~ loaded.panicked =>
               IF FirstValid(value) # None
               THEN loaded.target = FirstValid(value) /\ loaded.ret
               ELSE loaded.target = target /\ ~ loaded.ret

\* Under Spec: a Theme::load that returns leaves each palette field and the
\* shadow flag at the valid value its table supplies, or else as they were,
\* and a table loaded twice in a row changes nothing the second time.
ReturnedLoadLastValidWins ==
    (called /\ status = "ok") =>
        /\ \A f \in PaletteFieldSet :
               LET c == FirstValid(Get(ColorsOf(table), f))
               IN  theme.colors[f] = IF c # None THEN c ELSE prevTheme.colors[f]
        /\ theme.shadow = IF IsA(Get(table, "shadow"), "Boolean")
                          THEN Get(table, "shadow")[2] ELSE prevTheme.shadow
        /\ repeat => theme = prevTheme

(***************************************************************************)
(* Claims about load_color and load_theme                                  *)
(***************************************************************************)
\* C4: given an array, load_color takes the first element, left to right
\* and through nested arrays, that yields a valid color: the target ends up
\* equal to it and true is returned; with no valid element the target is
\* unchanged and false is returned.
C4_ArrayFirstValid ==
    (called /\ value[1] = "Array") =>
        IF FirstValid(value) # None
        THEN loaded = [target |-> FirstValid(value), ret |-> TRUE, panicked |-> FALSE]
        ELSE loaded = [target |-> target, ret |-> FALSE, panicked |-> FALSE]

\* C3: for every syntactically valid configuration load_theme returns
\* Ok(theme), whatever malformed color values it holds, and a palette field
\* whose value holds no valid color is skipped (keeps its default).
C3_LoadThemeNeverFails ==
    (called /\ content[1] = "Ok") =>
        /\ result[1] = "Ok"
        /\ \A f \in PaletteFieldSet :
               FirstValid(Get(ColorsOf(content[2]), f)) = None
                   => result[2].colors[f] = ThemeDefault.colors[f]

C7_Frame ==
    called =>
        /\ ~ IsA(Get(table, "shadow"), "Boolean") => theme.shadow = prevTheme.shadow
        /\ ~ IsA(Get(table, "borders"), "String") => theme.borders = prevTheme.borders
        /\ ~ IsA(Get(table, "colors"), "Table") => theme.colors = prevTheme.colors
        /\ \A f \in PaletteFieldSet :
               LET v == Get(ColorsOf(table), f)
               IN  ~ (IsA(v, "String") \/ IsA(v, "Array"))
                       => theme.colors[f] = prevTheme.colors[f]
        /\ DOMAIN table = {} => theme = prevTheme
        /\ (DOMAIN table = {} /\ prevTheme = load_default) => theme = load_default
        /\ (DOMAIN table = {"shadow"} /\ table.shadow = TBoolean(FALSE))
               => theme = [prevTheme EXCEPT !.shadow = FALSE]

\* After an earlier shadow = false, a load whose "shadow" is a string and
\* whose "borders" is a boolean has left both fields as they were.
C7_Witness ==
    /\ called /\ status = "ok"
    /\ DOMAIN table = {"shadow", "borders"}
    /\ table.shadow = TString(Str_red) /\ table.borders = TBoolean(TRUE)
    /\ prevTheme.shadow = FALSE /\ theme.shadow = FALSE
    /\ prevTheme.borders = "Outset" /\ theme.borders = "Outset"

\* C9: whatever tables Theme::load has been given since Theme::default(),
\* every palette field that holds an RgbLowRes color has its three channels
\* in [0,5].
C9_LowResInRange ==
    \A f \in PaletteFieldSet :
        theme.colors[f][1] = "RgbLowRes"
            => \A i \in 2..4 : theme.colors[f][i] \in 0..5

\* A load has stored a low-resolution color read from a 3-digit text.
C9_Witness ==
    /\ called /\ status = "ok"
    /\ Get(ColorsOf(table), LayerKey) = TString(Str_420)
    /\ theme.colors.view = RgbLowRes(4, 2, 0)

\* C10: after a load of a table, each palette field and the shadow flag
\* hold the valid value the table supplies for that key if it supplies one,
\* and otherwise the value they had before; a table loaded twice in a row
\* leaves the theme the first load made.
C10_LastValidWins ==
    called =>
        /\ \A f \in PaletteFieldSet :
               LET c == FirstValid(Get(ColorsOf(table), f))
               IN  theme.colors[f] = IF c # None THEN c ELSE prevTheme.colors[f]
        /\ theme.shadow = IF IsA(Get(table, "shadow"), "Boolean")
                          THEN Get(table, "shadow")[2] ELSE prevTheme.shadow
        /\ repeat => theme = prevTheme

(***************************************************************************)
(* Claims about ColorStyle::resolve                                        *)
(***************************************************************************)
\* C5: for every theme and every ColorStyle, resolve returns the pair of
\* the fixed table.
C5_ResolveTable ==
    called =>
        LET c == theme.colors
        IN  /\ style = <<"Default">> => pair = [front |-> Default, back |-> Default]
            /\ style = <<"Background">> => pair = [front |-> c.view, back |-> c.background]
            /\ style = <<"Shadow">> => pair = [front |-> c.shadow, back |-> c.shadow]
            /\ style = <<"Primary">> => pair = [front |-> c.primary, back |-> c.view]
            /\ style = <<"Secondary">> => pair = [front |-> c.secondary, back |-> c.view]
            /\ style = <<"Tertiary">> => pair = [front |-> c.tertiary, back |-> c.view]
            /\ style = <<"TitlePrimary">>
                   => pair = [front |-> c.title_primary, back |-> c.view]
            /\ style = <<"TitleSecondary">>
                   => pair = [front |-> c.title_secondary, back |-> c.view]
            /\ style = <<"Highlight">> => pair = [front |-> c.view, back |-> c.highlight]
            /\ style = <<"HighlightInactive">>
                   => pair = [front |-> c.view, back |-> c.highlight_inactive]
            /\ style[1] = "Custom" => pair = [front |-> style[2], back |-> style[3]]

\* Highlight has been resolved against a palette whose view and highlight
\* differ.
C5_Witness ==
    /\ called /\ style = <<"Highlight">>
    /\ theme.colors.view = OtherColor
    /\ theme.colors.highlight = Dark("Red")
    /\ pair = [front |-> OtherColor, back |-> Dark("Red")]

====
